---------------------------- MODULE Spec2Model ----------------------------
(***************************************************************************)
(* A model of the Dart backend of the frugal compiler                      *)
(* (compiler/generator/dartlang/generator.go).                             *)
(*                                                                         *)
(* Strings are sequences of one-character strings, so that ToLower,        *)
(* toLibraryName and fmt.Sprintf are computed character by character.      *)
(* Fixed pieces of emitted text that the code never inspects are kept as   *)
(* single string atoms.                                                    *)
(***************************************************************************)
EXTENDS Naturals, Sequences, FiniteSets, TLC

VARIABLES
    comp,        \* which part of the backend this behaviour exercises
    f,           \* the parsed schema (parser.Frugal), read-only input
    pubspec,     \* pubspec.yaml in the output directory: NoFile, Partial or the document
    imports,     \* what GenerateScopeImports last wrote
    err,         \* the error value returned by the last call ("nil" when none)
    scope,       \* the scope (parser.Scope) handed to a per-scope function
    result,      \* the value the last call of a string-valued function returned
    fs,          \* the files of <dir>/lib: file name -> content, a sequence of written pieces
    fs0,         \* history: fs before the first call of exportClasses
    exportLog,   \* history: the outcomes of the calls of exportClasses, in order
    seqId,       \* the emitted publisher's field seqId
    wire,        \* history: the calls the publisher made on its transport and protocol
    subscription,\* the emitted subscriber's subscription: its operation, topic and state
    received,    \* history: what the signalRead handler did with each inbound envelope
    subErrors,   \* the errors signalled on the subscription object
    uncaught     \* the errors that left a handler uncaught

vars == <<comp, f, pubspec, imports, err, scope, result, fs, fs0, exportLog,
          seqId, wire, subscription, received, subErrors, uncaught>>

inputVars == <<comp, f, scope>>
depsVars == <<pubspec, imports>>
exportVars == <<fs, fs0, exportLog>>
pubVars == <<seqId, wire>>
subVars == <<subscription, received, subErrors, uncaught>>

-----------------------------------------------------------------------------
(* Bounds of the model. *)

MaxScopes == 2
MaxPrefixLen == 3
MaxRuns == 2
MaxPublish == 3
MaxInbound == 3

-----------------------------------------------------------------------------
(* Strings. *)

lang == <<"d", "a", "r", "t">>

\* strings.ToLower, on the letters the model's names use.
ToLowerChar(c) ==
    CASE c = "A" -> "a"
      [] c = "B" -> "b"
      [] c = "E" -> "e"
      [] c = "T" -> "t"
      [] OTHER -> c

ToLower(s) == [i \in 1..Len(s) |-> ToLowerChar(s[i])]

\* strings.Contains(s, ".")
ContainsDot(s) == \E i \in 1..Len(s) : s[i] = "."

\* strings.Index(s, "."), 1-based; 0 when there is no dot.
IndexDot(s) ==
    IF ContainsDot(s)
    THEN CHOOSE i \in 1..Len(s) : s[i] = "." /\ \A j \in 1..(i - 1) : s[j] # "."
    ELSE 0

\* The set of elements of a sequence.
Range(s) == {s[i] : i \in 1..Len(s)}

\* strings.Replace(name, ".", "_", -1)
toLibraryName(name) ==
    [i \in 1..Len(name) |-> IF name[i] = "." THEN "_" ELSE name[i]]

-----------------------------------------------------------------------------
(* The parsed schema. *)

NoNamespaces == [l \in {} |-> <<>>]

\* parser.Operation.IncludeName: the part of Param before its first dot.
IncludeName(op) ==
    IF ContainsDot(op.Param) THEN SubSeq(op.Param, 1, IndexDot(op.Param) - 1) ELSE <<>>

\* parser.Operation.ParamName: the part of Param after its first dot.
ParamName(op) ==
    IF ContainsDot(op.Param)
    THEN SubSeq(op.Param, IndexDot(op.Param) + 1, Len(op.Param))
    ELSE op.Param

\* Appends to a duplicate-free list what it does not hold yet.
RECURSIVE AppendNew(_, _)
AppendNew(list, more) ==
    IF more = <<>> THEN list
    ELSE AppendNew(IF Head(more) \in Range(list) THEN list ELSE Append(list, Head(more)),
                   Tail(more))

RECURSIVE OpIncludes(_)
OpIncludes(ops) ==
    IF ops = <<>> THEN <<>>
    ELSE (IF IncludeName(Head(ops)) = <<>> THEN <<>> ELSE <<IncludeName(Head(ops))>>)
         \o OpIncludes(Tail(ops))

\* parser.Scope.ReferencedIncludes: the includes its operations name, each once.
ScopeReferencedIncludes(s) == AppendNew(<<>>, OpIncludes(s.Operations))

RECURSIVE ScopesIncludes(_)
ScopesIncludes(scopes) ==
    IF scopes = <<>> THEN <<>>
    ELSE ScopeReferencedIncludes(Head(scopes)) \o ScopesIncludes(Tail(scopes))

\* parser.Frugal.ReferencedIncludes: the includes its scopes name, each once.
ReferencedIncludes(fr) == AppendNew(<<>>, ScopesIncludes(fr.Scopes))

\* parser.Frugal.NamespaceForInclude: <<namespace, ok>>.
NamespaceForInclude(fr, include, lng) ==
    IF lng \in DOMAIN fr.ParsedIncludes[include].Namespaces
    THEN <<fr.ParsedIncludes[include].Namespaces[lng], TRUE>>
    ELSE <<<<>>, FALSE>>

-----------------------------------------------------------------------------
(* Names the model's schemas are built from. *)

nsDotted == <<"a", ".", "b">>
nsUnderscore == <<"a", "_", "b">>
nsUpper == <<"A", ".", "b">>
nsThrift == <<"t", "h", "r", "i", "f", "t">>
nsGo == <<"g", "n">>
incX == <<"x">>
incY == <<"y">>
IncludeNames == {incX, incY}

DartNs(ns) == [l \in {lang} |-> ns]
GoNs(ns) == [l \in {<<"g", "o">>} |-> ns]

paramLocal == <<"E", "v">>
paramX == <<"x", ".", "T">>
paramY == <<"y", ".", "B", "e">>
opCreated == <<"C", "r", "e", "a", "t", "e", "d">>
opDeleted == <<"D", "e", "l", "e", "t", "e", "d">>

NoPrefix == [String |-> <<>>, Variables |-> <<>>]

\* The schemas of included files: x and y each with or without a dart namespace.
ParsedIncludeChoices ==
    {[i \in IncludeNames |-> [Name |-> i, Namespaces |-> IF i = incX THEN nx ELSE ny]] :
        nx \in {NoNamespaces, DartNs(nsDotted), DartNs(nsUnderscore), DartNs(nsUpper),
                DartNs(nsThrift)},
        ny \in {NoNamespaces, DartNs(nsDotted), GoNs(nsGo)}}

OwnNamespaceChoices == {NoNamespaces, DartNs(nsUpper)}

OperationLists ==
    {<<[Name |-> opCreated, Param |-> paramLocal]>>,
     <<[Name |-> opCreated, Param |-> paramX]>>,
     <<[Name |-> opCreated, Param |-> paramY]>>,
     <<[Name |-> opCreated, Param |-> paramX], [Name |-> opDeleted, Param |-> paramY]>>}

SeqsUpTo(S, n) == UNION {[1..k -> S] : k \in 1..n}

-----------------------------------------------------------------------------
(* addToPubspec *)

\* pubspec.yaml: absent, cut short by a failed write, or written with a document.
NoFile == [state |-> "absent", doc |-> <<>>]
Partial == [state |-> "partial", doc |-> <<>>]
Written(doc) == [state |-> "written", doc |-> doc]

\* Nothing generated yet: no scope, no text.
NoImports == [scope |-> 0, text |-> <<>>]

GitDep(url) == [Git |-> [URL |-> url], Path |-> <<>>]
PathDep(path) == [Git |-> [URL |-> ""], Path |-> path]

\* deps[k] = v on a Go map.
MapSet(m, k, v) == [x \in DOMAIN m \cup {k} |-> IF x = k THEN v ELSE m[x]]

FixedDeps ==
    [k \in {nsThrift, <<"f", "r", "u", "g", "a", "l">>} |->
        IF k = nsThrift THEN GitDep("git@github.com:Workiva/thrift-dart.git")
        ELSE GitDep("git@github.com:Workiva/frugal-dart.git")]

\* The namespace an include resolves to: its dart namespace, else its own name.
ResolvedNamespace(fr, include) ==
    LET r == NamespaceForInclude(fr, include, lang)
    IN  IF r[2] THEN r[1] ELSE include

\* Mutant of IncludeDep: the entry is keyed by the include's own name.
IncludeDep_ByIncludeName(fr, include) ==
    <<toLibraryName(include),
      PathDep(<<".", ".", "/">> \o toLibraryName(ResolvedNamespace(fr, include)))>>

\* One turn of addToPubspec's loop: the <<key, descriptor>> an include adds.
IncludeDep(fr, include) ==
    <<toLibraryName(ResolvedNamespace(fr, include)),
      PathDep(<<".", ".", "/">> \o toLibraryName(ResolvedNamespace(fr, include)))>>

RECURSIVE AddIncludes(_, _, _)
AddIncludes(deps, fr, includes) ==
    IF includes = <<>> THEN deps
    ELSE LET d == IncludeDep(fr, Head(includes))
         IN  AddIncludes(MapSet(deps, d[1], d[2]), fr, Tail(includes))

PubspecDeps(fr) == AddIncludes(FixedDeps, fr, ReferencedIncludes(fr))

\* The schema's own namespace for dart, else its name.
OwnNamespace(fr) == IF lang \in DOMAIN fr.Namespaces THEN fr.Namespaces[lang] ELSE fr.Name

\* The package name of a schema's manifest.
PubspecName(fr) == ToLower(toLibraryName(OwnNamespace(fr)))

PubspecDoc(fr) ==
    [Name |-> PubspecName(fr),
     Version |-> "globals.Version",
     Description |-> "Autogenerated by the frugal compiler",
     Environment |-> [SDK |-> "^1.12.0"],
     Dependencies |-> PubspecDeps(fr)]

addToPubspec ==
    /\ comp = "deps"
    /\ \E io \in {"ok", "createFails", "writeFails"} :
        /\ pubspec' = CASE io = "ok" -> Written(PubspecDoc(f))
                         [] io = "createFails" -> pubspec
                         [] io = "writeFails" -> Partial
        /\ err' = IF io = "ok" THEN "nil" ELSE io
    /\ UNCHANGED <<inputVars, imports, result, exportVars, pubVars, subVars>>

-----------------------------------------------------------------------------
(* GenerateScopeImports *)

\* A piece of emitted text: a format and the operands fmt.Sprintf puts into it.
Raw(text) == [fmt |-> text, args |-> <<>>]

ImportsHeader ==
    <<Raw("import 'dart:async';\n\n"),
      Raw("import 'package:thrift/thrift.dart' as thrift;\n"),
      Raw("import 'package:frugal/frugal.dart' as frugal;\n\n")>>

\* The import line of one referenced include.
IncludeImport(fr, include) ==
    LET namespace == ToLower(toLibraryName(ResolvedNamespace(fr, include)))
    IN  [fmt |-> "import 'package:%s/%s.dart' as t_%s;\n",
         args |-> <<namespace, namespace, namespace>>]

\* The import line of one same-package parameter type.
LocalImport(param) ==
    [fmt |-> "import '%s.dart' as t_%s;\n", args |-> <<ToLower(param), ToLower(param)>>]

\* The keys of the params map: the operations' parameters that hold no dot.
LocalParams(s) ==
    {s.Operations[i].Param : i \in {j \in 1..Len(s.Operations) :
                                        ~ContainsDot(s.Operations[j].Param)}}

\* The orders in which ranging over a Go map may visit a set of keys.
Orders(S) ==
    {o \in [1..Cardinality(S) -> S] : \A i, j \in 1..Cardinality(S) : i # j => o[i] # o[j]}

ScopeImports(fr, s, order) ==
    ImportsHeader
    \o [i \in 1..Len(ScopeReferencedIncludes(s)) |->
            IncludeImport(fr, ScopeReferencedIncludes(s)[i])]
    \o [i \in 1..Len(order) |-> LocalImport(order[i])]

GenerateScopeImports ==
    /\ comp = "deps"
    /\ \E i \in 1..Len(f.Scopes), ok \in BOOLEAN :
        \E order \in Orders(LocalParams(f.Scopes[i])) :
            /\ imports' = IF ok THEN [scope |-> i, text |-> ScopeImports(f, f.Scopes[i], order)]
                          ELSE [scope |-> i, text |-> <<>>]
            /\ err' = IF ok THEN "nil" ELSE "writeFails"
    /\ UNCHANGED <<inputVars, pubspec, result, exportVars, pubVars, subVars>>

\* What the variables of the parts a behaviour does not exercise hold.
IdleScope == [Name |-> <<"S">>, Prefix |-> NoPrefix, Operations |-> <<>>]
NoResult == [done |-> FALSE, arg |-> 0, value |-> <<>>]
NoFiles == [n \in {} |-> <<>>]
NoSubscription == [state |-> "none", op |-> <<>>, topic |-> <<>>]
IdleDeps == pubspec = NoFile /\ imports = NoImports
IdleExport == fs = NoFiles /\ fs0 = NoFiles /\ exportLog = <<>>
IdlePublisher == seqId = 0 /\ wire = <<>>
IdleSubscriber ==
    subscription = NoSubscription /\ received = <<>> /\ subErrors = <<>> /\ uncaught = <<>>
Returned(i, v) == [done |-> TRUE, arg |-> i, value |-> v]

DepsSchemas ==
    {[Name |-> <<"E", "v", "s">>, Namespaces |-> own, ParsedIncludes |-> inc,
      Scopes |-> [i \in 1..Len(ops) |->
                    [Name |-> <<"S">>, Prefix |-> NoPrefix, Operations |-> ops[i]]]] :
        own \in OwnNamespaceChoices, inc \in ParsedIncludeChoices,
        ops \in SeqsUpTo(OperationLists, MaxScopes)}

InitDeps ==
    /\ comp = "deps"
    /\ f \in DepsSchemas
    /\ scope = IdleScope
    /\ pubspec = NoFile
    /\ imports = NoImports
    /\ err = "nil"
    /\ result = NoResult
    /\ IdleExport /\ IdlePublisher /\ IdleSubscriber

NextDeps == addToPubspec \/ GenerateScopeImports

SpecDeps == InitDeps /\ [][NextDeps]_vars

-----------------------------------------------------------------------------
(* Properties of the dependency manifest. *)

PubspecWritten == pubspec.state = "written"

\* The dependency mapping of the written manifest.
WrittenDeps == pubspec.doc.Dependencies

\* The relative-path entries of the written manifest.
PathKeys == {k \in DOMAIN WrittenDeps : WrittenDeps[k].Path # <<>>}

\* C1: in the manifest addToPubspec writes, the relative-path entries are exactly
\* the entries keyed toLibraryName(ns), with path "../" + toLibraryName(ns), of
\* the namespaces ns the referenced includes resolve to: includes that resolve
\* to one namespace share one entry, and there are no more relative-path
\* entries than distinct resolved namespaces.
C1_OneEntryPerNamespace ==
    PubspecWritten =>
        LET nss == {ResolvedNamespace(f, i) : i \in Range(ReferencedIncludes(f))}
        IN  /\ PathKeys = {toLibraryName(ns) : ns \in nss}
            /\ \A ns \in nss :
                WrittenDeps[toLibraryName(ns)].Path = <<".", ".", "/">> \o toLibraryName(ns)
            /\ Cardinality(PathKeys) <= Cardinality(nss)

\* Two different referenced includes resolve to one namespace and the manifest is written.
C1_Witness ==
    /\ PubspecWritten
    /\ \E i, j \in Range(ReferencedIncludes(f)) :
        i # j /\ ResolvedNamespace(f, i) = ResolvedNamespace(f, j)

\* C2: the written manifest always holds the two fixed git dependencies, under
\* the keys "thrift" and "frugal", whatever the includes are named.
C2_FixedDepsKept ==
    PubspecWritten =>
        \A k \in DOMAIN FixedDeps :
            k \in DOMAIN WrittenDeps /\ WrittenDeps[k] = FixedDeps[k]

\* C10: every package a scope file imports for an include is a key of the
\* manifest's dependencies, and is the name of the included schema's own manifest.
C10_ImportsAreDeclared ==
    (PubspecWritten /\ imports.text # <<>>) =>
        LET incs == ScopeReferencedIncludes(f.Scopes[imports.scope])
        IN  \A k \in 1..Len(incs) :
                LET p == imports.text[Len(ImportsHeader) + k].args[1]
                IN  /\ p \in DOMAIN WrittenDeps
                    /\ p = PubspecName(f.ParsedIncludes[incs[k]])

-----------------------------------------------------------------------------
(* generatePrefixStringTemplate *)

\* globals.TopicDelimiter
TopicDelimiter == <<".">>

\* The characters \w matches, among those the model's prefixes use.
WordChars == {"a", "s", "x", "y", "_"}

\* How many characters \w* takes at the head of s.
RECURSIVE WordRun(_)
WordRun(s) == IF s # <<>> /\ Head(s) \in WordChars THEN 1 + WordRun(Tail(s)) ELSE 0

\* regexp {\w*} .ReplaceAllString(s, "%s")
RECURSIVE ReplaceVariables(_)
ReplaceVariables(s) ==
    IF s = <<>> THEN <<>>
    ELSE IF Head(s) = "{" /\ WordRun(Tail(s)) < Len(Tail(s))
                         /\ Tail(s)[WordRun(Tail(s)) + 1] = "}"
         THEN <<"%", "s">> \o ReplaceVariables(SubSeq(s, WordRun(Tail(s)) + 3, Len(s)))
         ELSE <<Head(s)>> \o ReplaceVariables(Tail(s))

\* parser.ScopePrefix.Template: the prefix with each {variable} turned into %s.
Template(prefix) == ReplaceVariables(prefix.String)

\* The operands fmt.Sprintf was given and did not use.
RECURSIVE ExtraArgs(_, _)
ExtraArgs(args, n) ==
    IF n >= Len(args) THEN <<")">>
    ELSE <<"string=">> \o args[n + 1]
         \o (IF n + 1 < Len(args) THEN <<", ">> ELSE <<>>) \o ExtraArgs(args, n + 1)

\* fmt.Sprintf(format, args...) on string operands, from position i of the
\* format with n operands used. After % an optional precision "." is read,
\* then the verb: %% writes %, %s writes the next operand, any other verb is a
\* bad verb; a precision (always 0 here) cuts the operand to nothing.
RECURSIVE SprintfFrom(_, _, _, _)
SprintfFrom(format, i, args, n) ==
    IF i > Len(format)
    THEN IF n < Len(args) THEN <<"%!(EXTRA ">> \o ExtraArgs(args, n) ELSE <<>>
    ELSE IF format[i] # "%"
    THEN <<format[i]>> \o SprintfFrom(format, i + 1, args, n)
    ELSE LET prec == i + 1 <= Len(format) /\ format[i + 1] = "."
             j == IF prec THEN i + 2 ELSE i + 1
             arg == IF prec THEN <<>> ELSE args[n + 1]
         IN  IF j > Len(format)
             THEN <<"%!(NOVERB)">> \o SprintfFrom(format, j, args, n)
             ELSE IF format[j] = "%"
             THEN <<"%">> \o SprintfFrom(format, j + 1, args, n)
             ELSE IF n >= Len(args)
             THEN <<"%!", format[j], "(MISSING)">> \o SprintfFrom(format, j + 1, args, n)
             ELSE IF format[j] = "s"
             THEN arg \o SprintfFrom(format, j + 1, args, n + 1)
             ELSE <<"%!", format[j], "(string=">> \o arg \o <<")">>
                  \o SprintfFrom(format, j + 1, args, n + 1)

Sprintf(format, args) == SprintfFrom(format, 1, args, 0)

\* fmt.Sprintf("${%s}", variable)
Interpolation(variable) == <<"$", "{">> \o variable \o <<"}">>

\* Mutant of generatePrefixStringTemplate: the template always goes through Sprintf.
generatePrefixStringTemplate_AlwaysFormat(s) ==
    IF s.Prefix.String = <<>> THEN <<>>
    ELSE Sprintf(Template(s.Prefix) \o TopicDelimiter,
                 [i \in 1..Len(s.Prefix.Variables) |-> Interpolation(s.Prefix.Variables[i])])

generatePrefixStringTemplate(s) ==
    IF s.Prefix.String = <<>> THEN <<>>
    ELSE LET template == Template(s.Prefix) \o TopicDelimiter
         IN  IF Len(s.Prefix.Variables) = 0 THEN template
             ELSE Sprintf(template,
                     [i \in 1..Len(s.Prefix.Variables) |->
                        Interpolation(s.Prefix.Variables[i])])

CompilePrefix ==
    /\ comp = "prefix"
    /\ result' = Returned(0, generatePrefixStringTemplate(scope))
    /\ UNCHANGED <<inputVars, depsVars, err, exportVars, pubVars, subVars>>

\* A prefix as the parser reads it: literal characters and {variable} tokens.
PrefixTokens ==
    {[var |-> FALSE, text |-> <<c>>] : c \in {"a", "s", ".", "%"}}
    \cup {[var |-> TRUE, text |-> <<v>>] : v \in {"x", "y"}}

RECURSIVE TokensString(_)
TokensString(ts) ==
    IF ts = <<>> THEN <<>>
    ELSE (IF Head(ts).var THEN <<"{">> \o Head(ts).text \o <<"}">> ELSE Head(ts).text)
         \o TokensString(Tail(ts))

RECURSIVE TokensVariables(_)
TokensVariables(ts) ==
    IF ts = <<>> THEN <<>>
    ELSE (IF Head(ts).var THEN <<Head(ts).text>> ELSE <<>>) \o TokensVariables(Tail(ts))

\* parser.newScopePrefix: the prefix text and the variables it names, in order.
ScopePrefix(ts) == [String |-> TokensString(ts), Variables |-> TokensVariables(ts)]

IdleSchema ==
    [Name |-> <<"E", "v", "s">>, Namespaces |-> NoNamespaces,
     ParsedIncludes |-> [i \in IncludeNames |-> [Name |-> i, Namespaces |-> NoNamespaces]],
     Scopes |-> <<>>]

InitPrefix ==
    /\ comp = "prefix"
    /\ f = IdleSchema
    /\ \E ts \in {<<>>} \cup SeqsUpTo(PrefixTokens, MaxPrefixLen) :
        scope = [Name |-> <<"S">>, Prefix |-> ScopePrefix(ts), Operations |-> <<>>]
    /\ err = "nil"
    /\ result = NoResult
    /\ IdleDeps /\ IdleExport /\ IdlePublisher /\ IdleSubscriber

NextPrefix == CompilePrefix

SpecPrefix == InitPrefix /\ [][NextPrefix]_vars

-----------------------------------------------------------------------------
(* Properties of the compiled prefix. *)

\* The prefix text with its i-th {variable} replaced by "${" + vs[i] + "}".
RECURSIVE BindPositionally(_, _)
BindPositionally(s, vs) ==
    IF s = <<>> THEN <<>>
    ELSE IF Head(s) = "{"
         THEN <<"$", "{">> \o Head(vs) \o <<"}">>
              \o BindPositionally(SubSeq(s, Len(Head(vs)) + 3, Len(s)), Tail(vs))
         ELSE <<Head(s)>> \o BindPositionally(Tail(s), vs)

\* C3: with N >= 1 variables the compiled prefix is the literal prefix with its
\* i-th placeholder replaced by "${v_i}", v_i the i-th declared variable,
\* followed by exactly one delimiter.
C3_PositionalBinding ==
    (result.done /\ Len(scope.Prefix.Variables) >= 1) =>
        result.value =
            BindPositionally(scope.Prefix.String, scope.Prefix.Variables) \o TopicDelimiter

\* C4: with no variables the compiled prefix is empty for an empty literal
\* prefix, and otherwise the literal prefix, unchanged, followed by one delimiter.
C4_LiteralPrefix ==
    (result.done /\ Len(scope.Prefix.Variables) = 0) =>
        result.value = IF scope.Prefix.String = <<>> THEN <<>>
                       ELSE scope.Prefix.String \o <<".">>

\* A prefix of three literal characters, without variables, has been compiled.
C4_Witness ==
    /\ result.done
    /\ Len(scope.Prefix.Variables) = 0
    /\ "%" \in Range(scope.Prefix.String)
    /\ Len(result.value) = Len(scope.Prefix.String) + 1

-----------------------------------------------------------------------------
(* exportClasses *)

\* generator.FilePrefix, a constant of the generator package.
FilePrefix == <<"generator.FilePrefix">>

\* The facade file of a schema: its lower-cased library name, or name, + ".dart".
FacadeFile(fr) ==
    (IF lang \in DOMAIN fr.Namespaces THEN ToLower(toLibraryName(fr.Namespaces[lang]))
     ELSE ToLower(fr.Name)) \o <<".">> \o lang

\* The export line of one scope.
ExportLine(s) ==
    [fmt |-> "export 'src/%s%s.%s' show %sPublisher, %sSubscriber;\n",
     args |-> <<FilePrefix, ToLower(s.Name), lang, s.Name, s.Name>>]

\* The text exportClasses builds: a newline, then one line per scope.
Exports(fr) == <<Raw("\n")>> \o [i \in 1..Len(fr.Scopes) |-> ExportLine(fr.Scopes[i])]

\* Mutant of WriteAt: the data is written at the start of the file.
WriteAt_Start(content, data, off) ==
    data \o SubSeq(content, Len(data) + 1, Len(content))

\* os.File.WriteAt: data over the content from offset off on, the file growing as needed.
WriteAt(content, data, off) ==
    SubSeq(content, 1, off) \o data \o SubSeq(content, off + Len(data) + 1, Len(content))

exportClasses ==
    /\ comp = "export"
    /\ Len(exportLog) < MaxRuns
    /\ IF FacadeFile(f) \notin DOMAIN fs
       THEN /\ err' = "openFails"
            /\ fs' = fs
       ELSE \E io \in {"ok", "statFails", "writeFails"} :
            \E n \in 0..Len(Exports(f)) :
                /\ io = "writeFails" <=> n < Len(Exports(f))
                /\ err' = IF io = "ok" THEN "nil" ELSE io
                /\ fs' = IF io = "statFails" THEN fs
                         ELSE [fs EXCEPT ![FacadeFile(f)] =
                                 WriteAt(@, SubSeq(Exports(f), 1, n), Len(@))]
    /\ exportLog' = Append(exportLog, err')
    /\ UNCHANGED <<inputVars, depsVars, result, fs0, pubVars, subVars>>

scopeEvents == <<"E", "v", "e", "n", "t", "s">>
scopeBlog == <<"b", "l", "o", "g">>

ExportSchemas ==
    {[Name |-> <<"E", "v", "s">>, Namespaces |-> own, ParsedIncludes |-> IdleSchema.ParsedIncludes,
      Scopes |-> [i \in 1..Len(names) |->
                    [Name |-> names[i], Prefix |-> NoPrefix, Operations |-> <<>>]]] :
        own \in OwnNamespaceChoices,
        names \in {<<>>} \cup SeqsUpTo({scopeEvents, scopeBlog}, MaxScopes)}

\* What <dir>/lib may hold before: each schema's facade file, or not, empty or not.
FacadeContents == {<<>>, <<Raw("library evs;\n"), Raw("export 'evs_types.dart'")>>}

InitialFiles ==
    UNION {[names -> FacadeContents] :
             names \in SUBSET {FacadeFile(fr) : fr \in ExportSchemas}}

InitExport ==
    /\ comp = "export"
    /\ f \in ExportSchemas
    /\ scope = IdleScope
    /\ err = "nil"
    /\ result = NoResult
    /\ IdleDeps /\ IdlePublisher /\ IdleSubscriber
    /\ fs \in InitialFiles
    /\ fs0 = fs
    /\ exportLog = <<>>

NextExport == exportClasses

SpecExport == InitExport /\ [][NextExport]_vars

-----------------------------------------------------------------------------
(* Properties of the facade file. *)

\* C8: exportClasses never changes a file below its original end, nor any other
\* file; and when every call so far succeeded, n calls leave after the original
\* content n blocks, each a newline and then exactly one export line per scope
\* in declaration order, the i-th naming <Scope_i>Publisher and <Scope_i>Subscriber.
C8_PureAppend ==
    /\ DOMAIN fs = DOMAIN fs0
    /\ \A name \in DOMAIN fs0 :
        /\ Len(fs[name]) >= Len(fs0[name])
        /\ SubSeq(fs[name], 1, Len(fs0[name])) = fs0[name]
        /\ name # FacadeFile(f) => fs[name] = fs0[name]
    /\ (FacadeFile(f) \in DOMAIN fs0 /\ \A k \in 1..Len(exportLog) : exportLog[k] = "nil") =>
        LET old == Len(fs0[FacadeFile(f)])
            new == fs[FacadeFile(f)]
            S == Len(f.Scopes)
        IN  /\ Len(new) = old + Len(exportLog) * (S + 1)
            /\ \A r \in 0..(Len(exportLog) - 1) :
                /\ new[old + r * (S + 1) + 1] = Raw("\n")
                /\ \A i \in 1..S :
                    LET line == new[old + r * (S + 1) + 1 + i]
                    IN  /\ line.fmt = "export 'src/%s%s.%s' show %sPublisher, %sSubscriber;\n"
                        /\ line.args[2] = ToLower(f.Scopes[i].Name)
                        /\ line.args[4] = f.Scopes[i].Name
                        /\ line.args[5] = f.Scopes[i].Name

\* Two successful runs on a non-empty facade file of a schema with two scopes.
C8_Witness ==
    /\ exportLog = <<"nil", "nil">>
    /\ Len(f.Scopes) = 2
    /\ f.Scopes[1].Name # f.Scopes[2].Name
    /\ FacadeFile(f) \in DOMAIN fs0
    /\ fs0[FacadeFile(f)] # <<>>

-----------------------------------------------------------------------------
(* qualifiedParamName *)

\* Mutant of qualifiedParamName: a same-schema parameter is qualified by the
\* schema's own namespace.
qualifiedParamName_OwnNamespace(fr, op) ==
    IF IncludeName(op) # <<>>
    THEN <<"t", "_">> \o ToLower(toLibraryName(ResolvedNamespace(fr, IncludeName(op))))
         \o <<".">> \o ParamName(op)
    ELSE <<"t", "_">> \o ToLower(toLibraryName(OwnNamespace(fr))) \o <<".">> \o ParamName(op)

qualifiedParamName(fr, op) ==
    IF IncludeName(op) # <<>>
    THEN <<"t", "_">> \o ToLower(toLibraryName(ResolvedNamespace(fr, IncludeName(op))))
         \o <<".">> \o ParamName(op)
    ELSE <<"t", "_">> \o ToLower(ParamName(op)) \o <<".">> \o ParamName(op)

QualifyParam ==
    /\ comp = "qualify"
    /\ \E i \in 1..Len(scope.Operations) :
        result' = Returned(i, qualifiedParamName(f, scope.Operations[i]))
    /\ UNCHANGED <<inputVars, depsVars, err, exportVars, pubVars, subVars>>

InitQualify ==
    /\ comp = "qualify"
    /\ \E own \in OwnNamespaceChoices, inc \in ParsedIncludeChoices, ops \in OperationLists :
        /\ scope = [Name |-> <<"S">>, Prefix |-> NoPrefix, Operations |-> ops]
        /\ f = [Name |-> <<"E", "v", "s">>, Namespaces |-> own, ParsedIncludes |-> inc,
                Scopes |-> <<scope>>]
    /\ err = "nil"
    /\ result = NoResult
    /\ IdleDeps /\ IdleExport /\ IdlePublisher /\ IdleSubscriber

NextQualify == QualifyParam

SpecQualify == InitQualify /\ [][NextQualify]_vars

\* The operation qualifiedParamName was last called on.
QualifiedOp == scope.Operations[result.arg]

\* C9: the qualified name is "t_" + alias + "." + parameter name; without an
\* include the alias is the lower-cased parameter name, with one it is the
\* lower-cased library name of the include's dart namespace, or of the include's
\* own name when it declares none.
C9_QualifiedName ==
    result.done =>
        LET inc == IncludeName(QualifiedOp)
            declared == lang \in DOMAIN f.ParsedIncludes[inc].Namespaces
            alias == IF inc = <<>> THEN ToLower(ParamName(QualifiedOp))
                     ELSE IF declared
                          THEN ToLower(toLibraryName(f.ParsedIncludes[inc].Namespaces[lang]))
                          ELSE ToLower(toLibraryName(inc))
        IN  result.value = <<"t", "_">> \o alias \o <<".">> \o ParamName(QualifiedOp)

\* A same-schema parameter has been qualified in a schema that declares a dart namespace.
C9_Witness ==
    /\ result.done
    /\ IncludeName(QualifiedOp) = <<>>
    /\ lang \in DOMAIN f.Namespaces

-----------------------------------------------------------------------------
(* The emitted publisher and subscriber, as the Dart runtime executes them. *)

\* strings.Title on an identifier: its first letter upper-cased.
ToUpperChar(c) ==
    CASE c = "b" -> "B"
      [] c = "e" -> "E"
      [] OTHER -> c

Title(name) == IF name = <<>> THEN <<>> ELSE <<ToUpperChar(Head(name))>> \o Tail(name)

\* A Dart string literal's value: each ${name} replaced by the value of name.
RECURSIVE DartInterpolate(_, _)
DartInterpolate(s, env) ==
    IF s = <<>> THEN <<>>
    ELSE IF Len(s) >= 2 /\ s[1] = "$" /\ s[2] = "{"
         THEN LET n == WordRun(SubSeq(s, 3, Len(s)))
              IN  env[SubSeq(s, 3, 2 + n)] \o DartInterpolate(SubSeq(s, 4 + n, Len(s)), env)
         ELSE <<Head(s)>> \o DartInterpolate(Tail(s), env)

\* var topic = "${prefix}<Scope>${delimiter}${op}", prefix the compiled template.
Topic(s, op, env) ==
    DartInterpolate(generatePrefixStringTemplate(s), env)
    \o Title(s.Name) \o TopicDelimiter \o op.Name

Call(name, arg) == [call |-> name, arg |-> arg]

\* Mutant of publish: the message is built before seqId is incremented.
publish_StaleSeqId(id, s, op, env, req) ==
    [seqId |-> id + 1,
     calls |-> <<Call("preparePublish", Topic(s, op, env)),
                 Call("writeMessageBegin", <<op.Name, "CALL", id>>),
                 Call("write", req),
                 Call("writeMessageEnd", <<>>),
                 Call("flush", <<>>)>>]

\* The body of publish<Op>: the new seqId and the calls made, in order.
publish(id, s, op, env, req) ==
    [seqId |-> id + 1,
     calls |-> <<Call("preparePublish", Topic(s, op, env)),
                 Call("writeMessageBegin", <<op.Name, "CALL", id + 1>>),
                 Call("write", req),
                 Call("writeMessageEnd", <<>>),
                 Call("flush", <<>>)>>]

\* The values a caller may pass for the scope's prefix variables.
ArgEnvs(s) == [Range(s.Prefix.Variables) -> {<<"u">>, <<"v">>}]

Requests == {<<"r">>, <<"q">>}

Publish ==
    /\ comp = "publisher"
    /\ seqId < MaxPublish
    /\ \E i \in 1..Len(scope.Operations), env \in ArgEnvs(scope), req \in Requests :
        LET r == publish(seqId, scope, scope.Operations[i], env, req)
        IN  /\ seqId' = r.seqId
            /\ wire' = wire \o r.calls
    /\ UNCHANGED <<inputVars, depsVars, err, result, exportVars, subVars>>

RuntimeOperations ==
    <<[Name |-> opCreated, Param |-> paramLocal], [Name |-> opDeleted, Param |-> paramX]>>

RuntimeScopes ==
    {[Name |-> scopeBlog, Prefix |-> ScopePrefix(ts), Operations |-> RuntimeOperations] :
        ts \in {<<>>,
                <<[var |-> FALSE, text |-> <<"a">>]>>,
                <<[var |-> FALSE, text |-> <<"a">>], [var |-> FALSE, text |-> <<".">>],
                  [var |-> TRUE, text |-> <<"x">>]>>}}

RuntimeSchema(s) ==
    [Name |-> <<"E", "v", "s">>, Namespaces |-> NoNamespaces,
     ParsedIncludes |-> [i \in IncludeNames |->
                           [Name |-> i,
                            Namespaces |-> IF i = incX THEN DartNs(nsUpper) ELSE NoNamespaces]],
     Scopes |-> <<s>>]

\* The publisher as its constructor leaves it: seqId = 0.
InitPublisher ==
    /\ comp = "publisher"
    /\ scope \in RuntimeScopes
    /\ f = RuntimeSchema(scope)
    /\ err = "nil"
    /\ result = NoResult
    /\ seqId = 0
    /\ wire = <<>>
    /\ IdleDeps /\ IdleExport /\ IdleSubscriber

NextPublisher == Publish

SpecPublisher == InitPublisher /\ [][NextPublisher]_vars

\* The five calls the k-th publish made.
PublishCalls(k) == SubSeq(wire, 5 * (k - 1) + 1, 5 * k)

\* C7: every publish call makes its calls in the order preparePublish (with the
\* topic, which ends in the delimiter and the operation's name),
\* writeMessageBegin (a CALL envelope), write, writeMessageEnd, flush, and the
\* k-th call on a publisher that started with seqId 0 carries sequence number k.
C7_PublishOrder ==
    /\ Len(wire) = 5 * seqId
    /\ \A k \in 1..seqId :
        /\ [i \in 1..5 |-> PublishCalls(k)[i].call] =
              <<"preparePublish", "writeMessageBegin", "write", "writeMessageEnd", "flush">>
        /\ LET topic == PublishCalls(k)[1].arg
               op == PublishCalls(k)[2].arg[1]
           IN  /\ Len(topic) > Len(op)
               /\ SubSeq(topic, Len(topic) - Len(op), Len(topic)) = <<".">> \o op
        /\ PublishCalls(k)[2].arg[2] = "CALL"
        /\ PublishCalls(k)[2].arg[3] = k

\* Three publish calls have been made, not all of one operation.
C7_Witness ==
    /\ seqId = 3
    /\ PublishCalls(1)[2].arg[1] # PublishCalls(3)[2].arg[1]

-----------------------------------------------------------------------------
(* The emitted subscriber. *)

NoError == <<>>
UnknownMethod(name) == <<[type |-> "UNKNOWN_METHOD", message |-> name]>>

\* Mutant of recv: the envelope's name is not checked.
recv_NoNameCheck(fr, op, envelope) ==
    [calls |-> <<Call("readMessageBegin", <<>>),
                 Call("new", qualifiedParamName(fr, op)),
                 Call("read", <<>>),
                 Call("readMessageEnd", <<>>)>>,
     thrown |-> NoError,
     value |-> <<envelope.payload>>]

\* The body of _recv<Op>: the calls on the protocol, and what it throws or returns.
recv(fr, op, envelope) ==
    IF envelope.name # op.Name
    THEN [calls |-> <<Call("readMessageBegin", <<>>),
                      Call("skip", <<"STRUCT">>),
                      Call("readMessageEnd", <<>>)>>,
          thrown |-> UnknownMethod(envelope.name),
          value |-> <<>>]
    ELSE [calls |-> <<Call("readMessageBegin", <<>>),
                      Call("new", qualifiedParamName(fr, op)),
                      Call("read", <<>>),
                      Call("readMessageEnd", <<>>)>>,
          thrown |-> NoError,
          value |-> <<envelope.payload>>]

\* The signalRead listener, on<Param>(_recv<Op>(op, tp.protocol)): what _recv
\* did, the callback's invocations, and the error that leaves the listener.
onSignalRead(fr, op, envelope) ==
    LET r == recv(fr, op, envelope)
    IN  [envelope |-> envelope,
         calls |-> r.calls,
         thrown |-> r.thrown,
         callback |-> IF r.thrown = NoError THEN r.value ELSE <<>>]

\* subscribe<Op> up to its await: the topic is computed and the transport asked to subscribe.
SubscribeStart ==
    /\ comp = "subscriber"
    /\ subscription.state = "none"
    /\ \E i \in 1..Len(scope.Operations), env \in ArgEnvs(scope) :
        subscription' = [state |-> "subscribing", op |-> scope.Operations[i],
                         topic |-> Topic(scope, scope.Operations[i], env)]
    /\ UNCHANGED <<inputVars, depsVars, err, result, exportVars, pubVars,
                   received, subErrors, uncaught>>

\* subscribe<Op> after its await: on success both listeners are registered and
\* the subscription returned; on failure the returned future fails.
SubscribeDone ==
    /\ comp = "subscriber"
    /\ subscription.state = "subscribing"
    /\ \E ok \in BOOLEAN :
        /\ subscription' = [subscription EXCEPT !.state = IF ok THEN "active" ELSE "failed"]
        /\ err' = IF ok THEN "nil" ELSE "subscribeFails"
    /\ UNCHANGED <<inputVars, depsVars, result, exportVars, pubVars,
                   received, subErrors, uncaught>>

Envelopes == {[name |-> n, payload |-> "p"] : n \in {opCreated, opDeleted, <<"O", "t", "h", "e", "r">>}}

\* An inbound envelope reaches the signalRead listener. An error the listener
\* throws is caught by nothing: it goes to the zone's uncaught-error handler.
SignalRead ==
    /\ comp = "subscriber"
    /\ subscription.state = "active"
    /\ Len(received) + Len(subErrors) < MaxInbound
    /\ \E envelope \in Envelopes :
        LET h == onSignalRead(f, subscription.op, envelope)
        IN  /\ received' = Append(received, h)
            /\ uncaught' = uncaught \o h.thrown
    /\ UNCHANGED <<inputVars, depsVars, err, result, exportVars, pubVars,
                   subscription, subErrors>>

\* The transport reports an error: the error listener signals it on the subscription.
TransportError ==
    /\ comp = "subscriber"
    /\ subscription.state = "active"
    /\ Len(received) + Len(subErrors) < MaxInbound
    /\ subErrors' = Append(subErrors, [type |-> "TTransportError", message |-> <<>>])
    /\ UNCHANGED <<inputVars, depsVars, err, result, exportVars, pubVars,
                   subscription, received, uncaught>>

InitSubscriber ==
    /\ comp = "subscriber"
    /\ scope \in RuntimeScopes
    /\ f = RuntimeSchema(scope)
    /\ err = "nil"
    /\ result = NoResult
    /\ IdleSubscriber
    /\ IdleDeps /\ IdleExport /\ IdlePublisher

NextSubscriber == SubscribeStart \/ SubscribeDone \/ SignalRead \/ TransportError

SpecSubscriber == InitSubscriber /\ [][NextSubscriber]_vars

\* How many of the calls are readMessageEnd.
RECURSIVE CountEnds(_)
CountEnds(calls) ==
    IF calls = <<>> THEN 0
    ELSE (IF Head(calls).call = "readMessageEnd" THEN 1 ELSE 0) + CountEnds(Tail(calls))

\* C5: for an envelope whose name is not the operation's, _recv skips the
\* payload, closes the envelope and throws UNKNOWN_METHOD, without constructing
\* or reading a parameter and without the callback being invoked; for one whose
\* name matches, it constructs a parameter, reads it, closes the envelope and
\* returns it to the callback. Either way the envelope is closed exactly once.
C5_RecvRejectsUnknown ==
    \A k \in 1..Len(received) :
        LET e == received[k]
            names == [i \in 1..Len(e.calls) |-> e.calls[i].call]
        IN  /\ CountEnds(e.calls) = 1
            /\ IF e.envelope.name # subscription.op.Name
               THEN /\ names = <<"readMessageBegin", "skip", "readMessageEnd">>
                    /\ e.thrown = <<[type |-> "UNKNOWN_METHOD", message |-> e.envelope.name]>>
                    /\ e.callback = <<>>
               ELSE /\ names = <<"readMessageBegin", "new", "read", "readMessageEnd">>
                    /\ e.thrown = <<>>
                    /\ e.callback = <<e.envelope.payload>>

\* The listener has handled an envelope of another name and then one of its own.
C5_Witness ==
    /\ Len(received) >= 2
    /\ received[1].envelope.name # subscription.op.Name
    /\ received[2].envelope.name = subscription.op.Name

\* C6: every unknown-method failure of _recv is signalled on the subscription
\* object, and none leaves the listener uncaught.
C6_FailureOnSubscription ==
    /\ uncaught = <<>>
    /\ \A k \in 1..Len(received) :
        received[k].thrown # <<>> => received[k].thrown[1] \in Range(subErrors)

=============================================================================
